---- MODULE Spec2Model ----
\* Storage core of json-validator: the facade (src/database/index.ts), the
\* SQLite provider (src/database/sqlite.ts), the DynamoDB provider
\* (src/database/dynamodb.ts) and the earlier single-module store
\* (src/database.ts) that swept old records on every call, with the GET /:id
\* route of src/server.ts that calls getValidation.
EXTENDS Integers, Sequences, FiniteSets, TLC

\* ------------------------------------------------------------------ bounds
\* MaxEvents bounds the calls, clock advances and restarts of one run;
\* MaxInflight bounds the calls that are suspended at the same time.
MaxEvents == 3
MaxInflight == 2

\* ------------------------------------------------------- program constants
TtlSeconds == 86400
RetentionDays == 7
SecondsPerDay == 86400
MsPerSecond == 1000

\* ----------------------------------------------------------------- strings
\* Environment values are sequences of characters so that toLowerCase() and
\* truthiness are computed, not assumed.
Undefined == [defined |-> FALSE, chars |-> <<>>]

Str(s) == [defined |-> TRUE, chars |-> s]

UpperChars == <<"A","B","C","D","E","F","G","H","I","J","K","L","M",
                "N","O","P","Q","R","S","T","U","V","W","X","Y","Z">>

LowerChars == <<"a","b","c","d","e","f","g","h","i","j","k","l","m",
                "n","o","p","q","r","s","t","u","v","w","x","y","z">>

ToLowerChar(c) ==
    IF \E i \in 1..Len(UpperChars) : UpperChars[i] = c
    THEN LowerChars[CHOOSE i \in 1..Len(UpperChars) : UpperChars[i] = c]
    ELSE c

ToLowerCase(s) == [i \in 1..Len(s) |-> ToLowerChar(s[i])]

\* JavaScript truthiness of an environment value: undefined and "" are falsy.
Truthy(v) == v.defined /\ Len(v.chars) > 0

\* a || b
OrElse(v, d) == IF Truthy(v) THEN v.chars ELSE d

SQLITE == <<"s","q","l","i","t","e">>

DYNAMODB == <<"d","y","n","a","m","o","d","b">>

ProviderValues ==
    { Undefined,
      Str(<<>>),
      Str(SQLITE),
      Str(DYNAMODB),
      Str(<<"D","y","n","a","m","o","D","B">>),
      Str(<<" ","d","y","n","a","m","o","d","b">>),
      Str(<<"p","o","s","t","g","r","e","s">>) }

\* The deployments the process is started in.  `store` is the module that
\* server.ts gets for './database': database/index.ts (the facade) or the
\* single-module database.ts.  Under the facade: every provider value without
\* a table name, the DynamoDB spellings with an empty table name, and the
\* lower-case spelling with a table name.
Configs ==
    { [store |-> "index", DB_PROVIDER |-> p, DYNAMODB_TABLE_NAME |-> Undefined] :
        p \in ProviderValues }
    \cup { [store |-> "index", DB_PROVIDER |-> p, DYNAMODB_TABLE_NAME |-> Str(<<>>)] :
              p \in {Str(DYNAMODB), Str(<<"D","y","n","a","m","o","D","B">>)} }
    \cup { [store |-> "index", DB_PROVIDER |-> Str(DYNAMODB),
             DYNAMODB_TABLE_NAME |-> Str(<<"t","b","l">>)] }
    \cup { [store |-> "legacy", DB_PROVIDER |-> Undefined,
             DYNAMODB_TABLE_NAME |-> Undefined] }

\* ------------------------------------------------------------ value domains
Ids == {"idA", "idB"}

\* The :id parameter of GET /:id, with its characters: the two ids and the
\* name of a static file.
Paths ==
    { [key |-> "idA", chars |-> <<"i","d","A">>],
      [key |-> "idB", chars |-> <<"i","d","B">>],
      [key |-> "app.js", chars |-> <<"a","p","p",".","j","s">>] }

Schemas == {"", "{\"type\":\"object\"}"}

Jsons == {"{\"a\":1}"}

\* An instant is whole seconds plus milliseconds: Date.now() of the instant c
\* is c.s * 1000 + c.ms.  The clock starts one millisecond before a whole
\* second and advances by seven days or by a second more than seven days.
StartClock == [s |-> 0, ms |-> MsPerSecond - 1]

Jumps == {RetentionDays * SecondsPerDay, RetentionDays * SecondsPerDay + 1}

\* The instant d milliseconds (d < 1000) after c.
AddMs(c, d) ==
    IF c.ms + d >= MsPerSecond
    THEN [s |-> c.s + 1, ms |-> c.ms + d - MsPerSecond]
    ELSE [s |-> c.s, ms |-> c.ms + d]

Null == [absent |-> TRUE]

\* `db` before initDB() assigned it, and the Database object that initDB()
\* leaves behind when the file it read is not a database: every statement on
\* it throws.
NoDb == [loaded |-> FALSE, rows |-> {}, corrupt |-> FALSE]

CorruptDb == [loaded |-> TRUE, rows |-> {}, corrupt |-> TRUE]

\* The file at dbPath.  torn: the last write of the file was cut short, so
\* the file is not a store image; everTorn: some write of it was cut short.
NoFile == [exists |-> FALSE, rows |-> {}, torn |-> FALSE, everTorn |-> FALSE]

TornFile == [exists |-> TRUE, rows |-> {}, torn |-> TRUE, everTorn |-> TRUE]

\* What fs.writeFileSync(dbPath, buffer) can do: write the whole buffer;
\* throw before the file is opened; throw (or die) after the open truncated
\* the file and before the buffer was written whole.
Writes == {"ok", "fail", "torn"}

\* ------------------------------------------------------------- timestamps
\* SQLite CURRENT_TIMESTAMP / datetime(): 'YYYY-MM-DD HH:MM:SS', whole seconds.
SqlTimestamp(c) == [fmt |-> "sql", sec |-> c.s]

\* Date.prototype.toISOString(): millisecond precision.
ToISOString(c) == [fmt |-> "iso", s |-> c.s, ms |-> c.ms]

\* Mutant: the ttl uses the seven-day window of the single-module store.
TtlOfWeek(c) == c.s + RetentionDays * SecondsPerDay

\* Math.floor(Date.now() / 1000) + 86400: Date.now() of the instant c is
\* c.s * 1000 + c.ms with c.ms < 1000, whose floor of the division by 1000
\* is c.s.
TtlOf(c) == c.s + TtlSeconds

\* ------------------------------------------------------------------ state
\* env          the deployment: process.env (DB_PROVIDER, DYNAMODB_TABLE_NAME)
\*              and the store module in use
\* proc         "boot" before the database module is loaded, "running" after,
\*              "crashed" when loading it threw
\* provider     the provider object held by index.ts (`const db`)
\* initPromise  SQLiteProvider.initPromise / the promise of initDB()
\* initRuns     number of initDB() runs of this process
\* db           the module-level `let db: Database` of the SQLite store
\* file         the database file at dbPath: a whole store image, or a file
\*              whose write was cut short
\* table        the DynamoDB table
\* clock        wall clock, milliseconds
\* inflight     calls that are suspended at their await
\* last         the most recent step (a completed call, a request answered
\*              without a call, or an environment step)
\* returned     the (id, schema, json) of every save that returned an id
\* nOps, nTicks, nRestarts   the calls, clock advances and restarts so far
Events(o, t, r) == o + t + r

VARIABLES env, proc, provider, initPromise, initRuns, db, file, table,
          clock, inflight, last, returned, nOps, nTicks, nRestarts

vars == <<env, proc, provider, initPromise, initRuns, db, file, table,
          clock, inflight, last, returned, nOps, nTicks, nRestarts>>


\* ----------------------------------------------------------------- facade
\* Mutant: the default branch of the switch constructs the DynamoDB provider.
GetProviderDefaultDynamo(v) ==
    IF ToLowerCase(OrElse(v, SQLITE)) = SQLITE THEN "sqlite" ELSE "dynamodb"

\* index.ts getProvider(): which class is constructed.
GetProvider(v) ==
    IF ToLowerCase(OrElse(v, SQLITE)) = DYNAMODB THEN "dynamodb" ELSE "sqlite"

\* Mutant: the constructor does not check the table name.
DynamoCtorUnchecked(tableName) == TRUE

\* dynamodb.ts constructor: throws unless DYNAMODB_TABLE_NAME is truthy.
DynamoCtorOk(tableName) == Truthy(tableName)

\* ---------------------------------------------------------- request layer
\* String.prototype.includes for a one-character search string.
Includes(chars, c) == \E i \in 1..Len(chars) : chars[i] = c

\* Mutant: no request is taken for a static file.
IsStaticFileNever(chars) == FALSE

\* server.ts GET /:id: `if (id.includes('.'))`.
IsStaticFile(chars) == Includes(chars, ".")

\* The texts of the model that JSON.parse accepts; it throws on ''.
JsonParses(text) == text \in {"{\"type\":\"object\"}", "{\"a\":1}"}

NoResp == [status |-> 0, body |-> ""]

\* server.ts GET /:id after `await getValidation(id)`: 404 for no record,
\* the page for a record whose schema and json parse, 500 from the catch
\* block when getValidation or JSON.parse threw.
GetRouteResponse(outcome, rec) ==
    IF outcome = "throw"
    THEN [status |-> 500, body |-> "Internal server error"]
    ELSE IF rec = Null
    THEN [status |-> 404, body |-> "Validation not found or expired"]
    ELSE IF JsonParses(rec.schema) /\ JsonParses(rec.json)
    THEN [status |-> 200, body |-> "html"]
    ELSE [status |-> 500, body |-> "Internal server error"]

Env(ev, text) == [op |-> ev, id |-> "", schema |-> "", json |-> "",
                  outcome |-> "env", rid |-> "", rec |-> Null, err |-> text,
                  initAt |-> "none", calledAt |-> "none", follows |-> Null,
                  resp |-> NoResp]

Init ==
    /\ env \in Configs
    /\ proc = "boot"
    /\ provider = "none"
    /\ initPromise = "none"
    /\ initRuns = 0
    /\ db = NoDb
    /\ file = NoFile
    /\ table = {}
    /\ clock = StartClock
    /\ inflight = <<>>
    /\ last = Env("start", "")
    /\ returned = {}
    /\ nOps = 0
    /\ nTicks = 0
    /\ nRestarts = 0

\* index.ts line 24: `const db = getProvider()` at module load.
LoadModule ==
    /\ proc = "boot"
    /\ env.store = "index"
    /\ LET sel == GetProvider(env.DB_PROVIDER) IN
       IF sel = "dynamodb"
       THEN IF DynamoCtorOk(env.DYNAMODB_TABLE_NAME)
            THEN /\ proc' = "running"
                 /\ provider' = "dynamodb"
                 /\ last' = Env("load", "")
                 /\ UNCHANGED <<initPromise, initRuns>>
            ELSE /\ proc' = "crashed"
                 /\ provider' = "none"
                 /\ last' = Env("load", "DYNAMODB_TABLE_NAME required")
                 /\ UNCHANGED <<initPromise, initRuns>>
       ELSE /\ proc' = "running"
            /\ provider' = "sqlite"
            /\ initPromise' = "pending"
            /\ initRuns' = initRuns + 1
            /\ last' = Env("load", "")
    /\ UNCHANGED <<env, db, file, table, clock, inflight, returned, nOps,
                   nTicks, nRestarts>>

\* -------------------------------------------------------- SQLite provider
\* A row of the validations table; created_at DEFAULT CURRENT_TIMESTAMP.
Row(id, schema, json, now) ==
    [id |-> id, schema |-> schema, json |-> json,
     created_at |-> SqlTimestamp(now)]

RowIds(rows) == {r.id : r \in rows}

\* INSERT INTO validations (id, schema, json): id is the PRIMARY KEY, so a
\* duplicate id makes db.run throw and leaves the table as it was.
SqlInsert(rows, id, schema, json, now) ==
    IF id \in RowIds(rows)
    THEN [ok |-> FALSE, rows |-> rows]
    ELSE [ok |-> TRUE, rows |-> rows \cup {Row(id, schema, json, now)}]

\* datetime('now', '-N days'), in the format of CURRENT_TIMESTAMP.
SqlDatetimeMinusDays(now, days) ==
    [fmt |-> "sql", sec |-> now.s - days * SecondsPerDay]

\* Mutant: the comparison is <=.
SqlLessOrEqual(a, b) == a.sec <= b.sec

\* created_at < datetime(...): two timestamps of the same format compare as
\* the instants they denote.
SqlLess(a, b) == a.sec < b.sec

\* DELETE FROM validations WHERE created_at < datetime('now', '-7 days')
SqlDeleteOld(rows, now) ==
    {r \in rows : ~SqlLess(r.created_at, SqlDatetimeMinusDays(now, RetentionDays))}

\* Mutant: the SELECT lists json before schema, so the mapping swaps them.
SqlSelectSwapped(rows, id) ==
    IF \A r \in rows : r.id # id
    THEN Null
    ELSE LET row == CHOOSE r \in rows : r.id = id IN
         [id |-> row.id, schema |-> row.json, json |-> row.schema,
          created_at |-> row.created_at]

\* SELECT id, schema, json, created_at FROM validations WHERE id = ?
\* and the mapping of the first row to a ValidationRecord.
SqlSelect(rows, id) ==
    IF \A r \in rows : r.id # id
    THEN Null
    ELSE LET row == CHOOSE r \in rows : r.id = id IN
         [id |-> row.id, schema |-> row.schema, json |-> row.json,
          created_at |-> row.created_at]

\* Mutant: a failed write is swallowed.
SaveDBSwallow(d, f, w) ==
    IF ~d.loaded THEN [ok |-> TRUE, file |-> f]
    ELSE IF w = "ok"
    THEN [ok |-> TRUE, file |-> [exists |-> TRUE, rows |-> d.rows,
                                 torn |-> FALSE, everTorn |-> f.everTorn]]
    ELSE IF w = "torn" THEN [ok |-> TRUE, file |-> TornFile]
    ELSE [ok |-> TRUE, file |-> f]

\* saveDB(): export the whole database and write it over the file in place
\* (writeFileSync opens dbPath with truncation; there is no temporary file
\* and no rename).  A write that fails throws.
SaveDB(d, f, w) ==
    IF ~d.loaded THEN [ok |-> TRUE, file |-> f]
    ELSE IF w = "ok"
    THEN [ok |-> TRUE, file |-> [exists |-> TRUE, rows |-> d.rows,
                                 torn |-> FALSE, everTorn |-> f.everTorn]]
    ELSE IF w = "torn" THEN [ok |-> FALSE, file |-> TornFile]
    ELSE [ok |-> FALSE, file |-> f]

\* Mutant: the save first deletes the rows older than seven days, as the
\* single-module store does.
SqliteSaveSweeping(d, f, id, schema, json, now, write) ==
    IF ~d.loaded
    THEN [db |-> d, file |-> f, outcome |-> "throw", rid |-> "",
          err |-> "Database not initialized"]
    ELSE LET swept == SqlDeleteOld(d.rows, now)
             ins == SqlInsert(swept, id, schema, json, now)
             d2 == [d EXCEPT !.rows = ins.rows]
             sv == SaveDB(d2, f, write)
         IN  IF ~ins.ok
             THEN [db |-> [d EXCEPT !.rows = swept], file |-> f, outcome |-> "throw",
                   rid |-> "", err |-> "UNIQUE constraint failed"]
             ELSE IF ~sv.ok
             THEN [db |-> d2, file |-> sv.file, outcome |-> "throw", rid |-> "",
                   err |-> "write failed"]
             ELSE [db |-> d2, file |-> sv.file, outcome |-> "return", rid |-> id,
                   err |-> ""]

\* Mutant: the image that is written was exported before the INSERT, as when
\* the export of one save overlaps the insert of another.
SqliteSaveStaleExport(d, f, id, schema, json, now, write) ==
    IF ~d.loaded
    THEN [db |-> d, file |-> f, outcome |-> "throw", rid |-> "",
          err |-> "Database not initialized"]
    ELSE LET ins == SqlInsert(d.rows, id, schema, json, now)
             d2 == [d EXCEPT !.rows = ins.rows]
             sv == SaveDB(d, f, write)
         IN  IF ~ins.ok
             THEN [db |-> d, file |-> f, outcome |-> "throw", rid |-> "",
                   err |-> "UNIQUE constraint failed"]
             ELSE IF ~sv.ok
             THEN [db |-> d2, file |-> sv.file, outcome |-> "throw", rid |-> "",
                   err |-> "write failed"]
             ELSE [db |-> d2, file |-> sv.file, outcome |-> "return", rid |-> id,
                   err |-> ""]

\* Mutant: the save rejects a schema that is the empty string.
SqliteSaveValidating(d, f, id, schema, json, now, write) ==
    IF ~d.loaded
    THEN [db |-> d, file |-> f, outcome |-> "throw", rid |-> "",
          err |-> "Database not initialized"]
    ELSE IF schema = ""
    THEN [db |-> d, file |-> f, outcome |-> "throw", rid |-> "",
          err |-> "invalid schema"]
    ELSE LET ins == SqlInsert(d.rows, id, schema, json, now)
             d2 == [d EXCEPT !.rows = ins.rows]
             sv == SaveDB(d2, f, write)
         IN  IF ~ins.ok
             THEN [db |-> d, file |-> f, outcome |-> "throw", rid |-> "",
                   err |-> "UNIQUE constraint failed"]
             ELSE IF ~sv.ok
             THEN [db |-> d2, file |-> sv.file, outcome |-> "throw", rid |-> "",
                   err |-> "write failed"]
             ELSE [db |-> d2, file |-> sv.file, outcome |-> "return", rid |-> id,
                   err |-> ""]

\* The body of SQLiteProvider.saveValidation after `await this.initPromise`.
SqliteSave(d, f, id, schema, json, now, write) ==
    IF ~d.loaded
    THEN [db |-> d, file |-> f, outcome |-> "throw", rid |-> "",
          err |-> "Database not initialized"]
    ELSE IF d.corrupt
    THEN [db |-> d, file |-> f, outcome |-> "throw", rid |-> "",
          err |-> "file is not a database"]
    ELSE LET ins == SqlInsert(d.rows, id, schema, json, now)
             d2 == [d EXCEPT !.rows = ins.rows]
             sv == SaveDB(d2, f, write)
         IN  IF ~ins.ok
             THEN [db |-> d, file |-> f, outcome |-> "throw", rid |-> "",
                   err |-> "UNIQUE constraint failed"]
             ELSE IF ~sv.ok
             THEN [db |-> d2, file |-> sv.file, outcome |-> "throw", rid |-> "",
                   err |-> "write failed"]
             ELSE [db |-> d2, file |-> sv.file, outcome |-> "return", rid |-> id,
                   err |-> ""]

\* Mutant: an empty result is reported as an error.
SqliteGetThrowsOnMissing(d, f, id, now, write) ==
    IF ~d.loaded
    THEN [db |-> d, file |-> f, outcome |-> "throw", rec |-> Null,
          err |-> "Database not initialized"]
    ELSE IF SqlSelect(d.rows, id) = Null
    THEN [db |-> d, file |-> f, outcome |-> "throw", rec |-> Null,
          err |-> "not found"]
    ELSE [db |-> d, file |-> f, outcome |-> "return",
          rec |-> SqlSelect(d.rows, id), err |-> ""]

\* The body of SQLiteProvider.getValidation after `await this.initPromise`.
SqliteGet(d, f, id, now, write) ==
    IF ~d.loaded
    THEN [db |-> d, file |-> f, outcome |-> "throw", rec |-> Null,
          err |-> "Database not initialized"]
    ELSE IF d.corrupt
    THEN [db |-> d, file |-> f, outcome |-> "throw", rec |-> Null,
          err |-> "file is not a database"]
    ELSE [db |-> d, file |-> f, outcome |-> "return",
          rec |-> SqlSelect(d.rows, id), err |-> ""]

\* Mutant: the call does not await the initialization.
SettledNoAwait(p) == TRUE

\* `await this.initPromise`: the continuation runs once the promise settled.
Settled(p) == p \in {"resolved", "rejected"}

\* Mutant: the rejection of the initialization is caught and dropped.
AwaitedSwallow(p) == "value"

\* `await this.initPromise` once the promise settled: a rejected promise
\* throws its reason into the call, a resolved one lets the body run.
Awaited(p) == IF p = "rejected" THEN "throw" ELSE "value"

\* A call suspended at its await; calledAt is the state of the initialization
\* promise when the call was made.
Call(op, id, schema, json, item) ==
    [op |-> op, id |-> id, schema |-> schema, json |-> json, item |-> item,
     calledAt |-> initPromise]

\* An entry of `returned`: what a save that returned an id was given, and the
\* provider that ran it.
Saved(id, schema, json) ==
    [id |-> id, schema |-> schema, json |-> json, by |-> provider]

\* What the step before this one returned, when it was a save.
Follows(l) ==
    IF l.op = "save" /\ l.outcome = "return"
    THEN [id |-> l.rid, schema |-> l.schema, json |-> l.json]
    ELSE Null

\* The record of a completed call; for a getValidation of the facade, which
\* GET /:id issued, with the response the route sends.
Done(c, outcome, rid, rec, err, initAt) ==
    [op |-> c.op, id |-> c.id, schema |-> c.schema, json |-> c.json,
     outcome |-> outcome, rid |-> rid, rec |-> rec, err |-> err,
     initAt |-> initAt, calledAt |-> c.calledAt, follows |-> Follows(last),
     resp |-> IF c.op = "get" /\ provider \in {"sqlite", "dynamodb"}
              THEN GetRouteResponse(outcome, rec)
              ELSE NoResp]

Tail1(s) == SubSeq(s, 2, Len(s))

RemoveAt(s, i) == SubSeq(s, 1, i - 1) \o SubSeq(s, i + 1, Len(s))

\* initDB() after `await initSqlJs()`: load the file if it exists, else an
\* empty database; CREATE TABLE IF NOT EXISTS.
InitDBResolve ==
    /\ proc = "running"
    /\ provider = "sqlite"
    /\ initPromise = "pending"
    /\ db' = [loaded |-> TRUE, rows |-> IF file.exists THEN file.rows ELSE {},
              corrupt |-> FALSE]
    /\ initPromise' = "resolved"
    /\ last' = Env("init", "")
    /\ UNCHANGED <<env, proc, provider, initRuns, file, table, clock, inflight,
                   returned, nOps, nTicks, nRestarts>>

\* initDB() rejects: initSqlJs() or readFileSync threw and db stays
\* undefined, or the file that was read is not a database and CREATE TABLE
\* threw after db was assigned.
InitDBReject ==
    /\ proc = "running"
    /\ provider = "sqlite"
    /\ initPromise = "pending"
    /\ initPromise' = "rejected"
    /\ \E assigned \in (IF file.torn THEN BOOLEAN ELSE {FALSE}) :
          db' = IF assigned THEN CorruptDb ELSE db
    /\ last' = Env("init", "init failed")
    /\ UNCHANGED <<env, proc, provider, initRuns, file, table, clock,
                   inflight, returned, nOps, nTicks, nRestarts>>

\* index.ts saveValidation -> SQLiteProvider.saveValidation up to its await.
SqliteSaveCall(schema, json) ==
    /\ proc = "running"
    /\ provider = "sqlite"
    /\ Events(nOps, nTicks, nRestarts) < MaxEvents
    /\ Len(inflight) < MaxInflight
    /\ inflight' = Append(inflight, Call("save", "", schema, json, Null))
    /\ nOps' = nOps + 1
    /\ UNCHANGED <<env, proc, provider, initPromise, initRuns, db, file, table,
                   clock, last, returned, nTicks, nRestarts>>

\* index.ts getValidation -> SQLiteProvider.getValidation up to its await.
SqliteGetCall(id) ==
    /\ proc = "running"
    /\ provider = "sqlite"
    /\ Events(nOps, nTicks, nRestarts) < MaxEvents
    /\ Len(inflight) < MaxInflight
    /\ inflight' = Append(inflight, Call("get", id, "", "", Null))
    /\ nOps' = nOps + 1
    /\ UNCHANGED <<env, proc, provider, initPromise, initRuns, db, file, table,
                   clock, last, returned, nTicks, nRestarts>>

\* The continuation of the oldest suspended call (promise reactions run in
\* the order they were registered).
SqliteResume(newId, write) ==
    /\ proc = "running"
    /\ provider = "sqlite"
    /\ Len(inflight) > 0
    /\ Settled(initPromise)
    /\ LET c == Head(inflight) IN
       IF Awaited(initPromise) = "throw"
       THEN /\ last' = Done(c, "throw", "", Null, "init failed", initPromise)
            /\ UNCHANGED <<db, file, returned>>
       ELSE IF c.op = "save"
       THEN LET r == SqliteSave(db, file, newId, c.schema, c.json, clock, write) IN
            /\ db' = r.db
            /\ file' = r.file
            /\ last' = Done(c, r.outcome, r.rid, Null, r.err, initPromise)
            /\ returned' = IF r.outcome = "return"
                            THEN returned \cup {Saved(r.rid, c.schema, c.json)}
                            ELSE returned
       ELSE LET r == SqliteGet(db, file, c.id, clock, write) IN
            /\ db' = r.db
            /\ file' = r.file
            /\ last' = Done(c, r.outcome, "", r.rec, r.err, initPromise)
            /\ UNCHANGED returned
    /\ inflight' = Tail1(inflight)
    /\ UNCHANGED <<env, proc, provider, initPromise, initRuns, table, clock,
                   nOps, nTicks, nRestarts>>

\* The process dies inside the writeFileSync of a save (the INSERT was done,
\* the file was opened with truncation, the buffer is not written whole) and
\* is started again: memory is lost, the file is cut short.
SqliteCrashInSave(newId) ==
    /\ proc = "running"
    /\ provider = "sqlite"
    /\ Len(inflight) > 0
    /\ initPromise = "resolved"
    /\ Head(inflight).op = "save"
    /\ SqlInsert(db.rows, newId, Head(inflight).schema, Head(inflight).json,
                 clock).ok
    /\ Events(nOps, nTicks, nRestarts) < MaxEvents
    /\ file' = SaveDB(db, file, "torn").file
    /\ proc' = "boot"
    /\ provider' = "none"
    /\ initPromise' = "none"
    /\ initRuns' = 0
    /\ db' = NoDb
    /\ inflight' = <<>>
    /\ nRestarts' = nRestarts + 1
    /\ last' = Env("crash", "")
    /\ UNCHANGED <<env, table, clock, returned, nOps, nTicks>>

\* ------------------------------------------------------ DynamoDB provider
\* The Item of the PutCommand in DynamoDBProvider.saveValidation.
DynamoItem(id, schema, json, tCreated, tTtl) ==
    [PK |-> id, schema |-> schema, json |-> json,
     created_at |-> ToISOString(tCreated), ttl |-> TtlOf(tTtl)]

\* Mutant: an update that sets schema and json of an existing item and keeps
\* its other attributes.
DynamoPutMerge(tbl, item) ==
    IF \A i \in tbl : i.PK # item.PK
    THEN tbl \cup {item}
    ELSE {i \in tbl : i.PK # item.PK}
         \cup {[(CHOOSE i \in tbl : i.PK = item.PK)
                   EXCEPT !.schema = item.schema, !.json = item.json]}

\* PutCommand without a condition: the item replaces any item of the same key.
DynamoPut(tbl, item) == {i \in tbl : i.PK # item.PK} \cup {item}

\* Mutant: an item whose ttl has passed is treated as absent.
DynamoGetItemUnexpired(tbl, id) ==
    IF \A i \in tbl : i.PK # id \/ i.ttl <= clock.s
    THEN Null
    ELSE CHOOSE i \in tbl : i.PK = id

\* GetCommand by key: the Item of the result, or none.
DynamoGetItem(tbl, id) ==
    IF \A i \in tbl : i.PK # id THEN Null ELSE CHOOSE i \in tbl : i.PK = id

\* Mutant: the Item is returned as it is.
DynamoRecordRaw(item) == item

\* DynamoDBProvider.getValidation: the mapping of result.Item to the record.
DynamoRecord(item) ==
    IF item = Null THEN Null
    ELSE [id |-> item.PK, schema |-> item.schema, json |-> item.json,
          created_at |-> item.created_at]

\* DynamoDBProvider.saveValidation after `await this.client.send(put)`: a
\* rejected send throws out of the call, an answered one returns the id.
DynamoSaveValidation(item, sendOk) ==
    IF sendOk
    THEN [outcome |-> "return", rid |-> item.PK, err |-> ""]
    ELSE [outcome |-> "throw", rid |-> "", err |-> "send failed"]

\* Mutant: a rejected send is caught and reported as 'no item'.
DynamoGetValidationCatch(tbl, id, sendOk) ==
    IF sendOk
    THEN [outcome |-> "return", rec |-> DynamoRecord(DynamoGetItem(tbl, id)),
          err |-> ""]
    ELSE [outcome |-> "return", rec |-> Null, err |-> ""]

\* DynamoDBProvider.getValidation after `await this.client.send(get)`.
DynamoGetValidation(tbl, id, sendOk) ==
    IF sendOk
    THEN [outcome |-> "return", rec |-> DynamoRecord(DynamoGetItem(tbl, id)),
          err |-> ""]
    ELSE [outcome |-> "throw", rec |-> Null, err |-> "send failed"]

\* index.ts saveValidation -> DynamoDBProvider.saveValidation up to its await:
\* generateId(), new Date() and Date.now() (two reads of the clock, which may
\* tick between them), then the PutCommand is sent.
DynamoSaveCall(schema, json, newId, dt) ==
    /\ proc = "running"
    /\ provider = "dynamodb"
    /\ Events(nOps, nTicks, nRestarts) < MaxEvents
    /\ Len(inflight) < MaxInflight
    /\ inflight' = Append(inflight,
                          Call("save", "", schema, json,
                               DynamoItem(newId, schema, json, clock, AddMs(clock, dt))))
    /\ clock' = AddMs(clock, dt)
    /\ dt > 0 => Events(nOps, nTicks, nRestarts) + 1 < MaxEvents
    /\ nTicks' = IF dt > 0 THEN nTicks + 1 ELSE nTicks
    /\ nOps' = nOps + 1
    /\ UNCHANGED <<env, proc, provider, initPromise, initRuns, db, file, table,
                   last, returned, nRestarts>>

\* index.ts getValidation -> DynamoDBProvider.getValidation up to its await.
DynamoGetCall(id) ==
    /\ proc = "running"
    /\ provider = "dynamodb"
    /\ Events(nOps, nTicks, nRestarts) < MaxEvents
    /\ Len(inflight) < MaxInflight
    /\ inflight' = Append(inflight, Call("get", id, "", "", Null))
    /\ nOps' = nOps + 1
    /\ UNCHANGED <<env, proc, provider, initPromise, initRuns, db, file, table,
                   clock, last, returned, nTicks, nRestarts>>

\* client.send() settles for the i-th call in flight.  sendOk: the response
\* arrived; applied: the table executed the request (a put may be executed
\* although its response is lost).
DynamoSettle(i, sendOk, applied) ==
    /\ proc = "running"
    /\ provider = "dynamodb"
    /\ i \in 1..Len(inflight)
    /\ sendOk => applied
    /\ LET c == inflight[i] IN
       IF c.op = "save"
       THEN LET r == DynamoSaveValidation(c.item, sendOk) IN
            /\ table' = IF applied THEN DynamoPut(table, c.item) ELSE table
            /\ last' = Done(c, r.outcome, r.rid, Null, r.err, "none")
            /\ returned' = IF r.outcome = "return"
                           THEN returned \cup {Saved(r.rid, c.schema, c.json)}
                           ELSE returned
       ELSE LET r == DynamoGetValidation(table, c.id, sendOk) IN
            /\ applied = sendOk
            /\ last' = Done(c, r.outcome, "", r.rec, r.err, "none")
            /\ UNCHANGED <<table, returned>>
    /\ inflight' = RemoveAt(inflight, i)
    /\ UNCHANGED <<env, proc, provider, initPromise, initRuns, db, file, clock,
                   nOps, nTicks, nRestarts>>

\* DynamoDB's TTL process: some time after an item's ttl (epoch seconds) has
\* passed, the table deletes the item.
DynamoExpire ==
    /\ \E item \in table :
          /\ item.ttl <= clock.s
          /\ table' = table \ {item}
    /\ last' = Env("expire", "")
    /\ UNCHANGED <<env, proc, provider, initPromise, initRuns, db, file, clock,
                   inflight, returned, nOps, nTicks, nRestarts>>

\* ------------------------------------------- single-module store (database.ts)
\* Mutant: the sweep deletes nothing.
CleanupKeepsAll(d, f, now, write) ==
    IF ~d.loaded THEN [ok |-> TRUE, db |-> d, file |-> f]
    ELSE LET sv == SaveDB(d, f, write) IN
         [ok |-> sv.ok, db |-> d, file |-> sv.file]

\* cleanupOldRecords(): nothing without a database; else the delete, then
\* saveDB(), whose failure throws after the rows are gone from memory.
CleanupOldRecords(d, f, now, write) ==
    IF ~d.loaded THEN [ok |-> TRUE, db |-> d, file |-> f]
    ELSE LET d2 == [d EXCEPT !.rows = SqlDeleteOld(d.rows, now)]
             sv == SaveDB(d2, f, write)
         IN  [ok |-> sv.ok, db |-> d2, file |-> sv.file]

\* database.ts saveValidation (synchronous).
LegacySaveValidation(d, f, id, schema, json, now, sweepWrite, write) ==
    IF ~d.loaded
    THEN [db |-> d, file |-> f, outcome |-> "throw", rid |-> "",
          err |-> "Database not initialized"]
    ELSE IF d.corrupt
    THEN [db |-> d, file |-> f, outcome |-> "throw", rid |-> "",
          err |-> "file is not a database"]
    ELSE LET cl == CleanupOldRecords(d, f, now, sweepWrite)
             r == SqliteSave(cl.db, cl.file, id, schema, json, now, write)
         IN  IF ~cl.ok
             THEN [db |-> cl.db, file |-> cl.file, outcome |-> "throw", rid |-> "",
                   err |-> "write failed"]
             ELSE r

\* database.ts getValidation (synchronous).
LegacyGetValidation(d, f, id, now, sweepWrite) ==
    IF ~d.loaded
    THEN [db |-> d, file |-> f, outcome |-> "throw", rec |-> Null,
          err |-> "Database not initialized"]
    ELSE IF d.corrupt
    THEN [db |-> d, file |-> f, outcome |-> "throw", rec |-> Null,
          err |-> "file is not a database"]
    ELSE LET cl == CleanupOldRecords(d, f, now, sweepWrite) IN
         IF ~cl.ok
         THEN [db |-> cl.db, file |-> cl.file, outcome |-> "throw", rec |-> Null,
               err |-> "write failed"]
         ELSE [db |-> cl.db, file |-> cl.file, outcome |-> "return",
               rec |-> SqlSelect(cl.db.rows, id), err |-> ""]

\* Module load: `initDB().catch(console.error)`.
LegacyLoad ==
    /\ proc = "boot"
    /\ env.store = "legacy"
    /\ proc' = "running"
    /\ provider' = "legacy"
    /\ initPromise' = "pending"
    /\ initRuns' = initRuns + 1
    /\ last' = Env("load", "")
    /\ UNCHANGED <<env, db, file, table, clock, inflight, returned, nOps,
                   nTicks, nRestarts>>

LegacyInitResolve ==
    /\ provider = "legacy"
    /\ initPromise = "pending"
    /\ db' = [loaded |-> TRUE, rows |-> IF file.exists THEN file.rows ELSE {},
              corrupt |-> FALSE]
    /\ initPromise' = "resolved"
    /\ last' = Env("init", "")
    /\ UNCHANGED <<env, proc, provider, initRuns, file, table, clock, inflight,
                   returned, nOps, nTicks, nRestarts>>

\* initDB() rejects, before or after db was assigned; the rejection is
\* logged and dropped.
LegacyInitReject ==
    /\ provider = "legacy"
    /\ initPromise = "pending"
    /\ initPromise' = "rejected"
    /\ \E assigned \in (IF file.torn THEN BOOLEAN ELSE {FALSE}) :
          db' = IF assigned THEN CorruptDb ELSE db
    /\ last' = Env("init", "init failed")
    /\ UNCHANGED <<env, proc, provider, initRuns, file, table, clock,
                   inflight, returned, nOps, nTicks, nRestarts>>

LegacySave(schema, json, newId, sweepWrite, write) ==
    /\ provider = "legacy"
    /\ Events(nOps, nTicks, nRestarts) < MaxEvents
    /\ LET c == Call("save", "", schema, json, Null)
           r == LegacySaveValidation(db, file, newId, schema, json, clock,
                                     sweepWrite, write)
       IN  /\ db' = r.db
           /\ file' = r.file
           /\ last' = Done(c, r.outcome, r.rid, Null, r.err, initPromise)
           /\ returned' = IF r.outcome = "return"
                           THEN returned \cup {Saved(r.rid, schema, json)}
                           ELSE returned
    /\ nOps' = nOps + 1
    /\ UNCHANGED <<env, proc, provider, initPromise, initRuns, table, clock,
                   inflight, nTicks, nRestarts>>

LegacyGet(id, sweepWrite) ==
    /\ provider = "legacy"
    /\ Events(nOps, nTicks, nRestarts) < MaxEvents
    /\ LET c == Call("get", id, "", "", Null)
           r == LegacyGetValidation(db, file, id, clock, sweepWrite)
       IN  /\ db' = r.db
           /\ file' = r.file
           /\ last' = Done(c, r.outcome, "", r.rec, r.err, initPromise)
    /\ nOps' = nOps + 1
    /\ UNCHANGED <<env, proc, provider, initPromise, initRuns, table, clock,
                   inflight, returned, nTicks, nRestarts>>

\* server.ts GET /:id for the name of a static file: 404 'Not found' before
\* any call of the store.
GetRouteStatic(path) ==
    /\ proc = "running"
    /\ provider \in {"sqlite", "dynamodb"}
    /\ IsStaticFile(path.chars)
    /\ Events(nOps, nTicks, nRestarts) < MaxEvents
    /\ last' = [Env("route", "") EXCEPT
                   !.id = path.key,
                   !.resp = [status |-> 404, body |-> "Not found"]]
    /\ nOps' = nOps + 1
    /\ UNCHANGED <<env, proc, provider, initPromise, initRuns, db, file, table,
                   clock, inflight, returned, nTicks, nRestarts>>

\* ------------------------------------------------------------ environment
Tick ==
    /\ Events(nOps, nTicks, nRestarts) < MaxEvents
    /\ \E j \in Jumps : clock' = [clock EXCEPT !.s = @ + j]
    /\ nTicks' = nTicks + 1
    /\ last' = Env("tick", "")
    /\ UNCHANGED <<env, proc, provider, initPromise, initRuns, db, file, table,
                   inflight, returned, nOps, nRestarts>>

\* The process ends and is started again: memory is lost, the file and the
\* table stay.
Restart ==
    /\ proc \in {"running", "crashed"}
    /\ Events(nOps, nTicks, nRestarts) < MaxEvents
    /\ proc' = "boot"
    /\ provider' = "none"
    /\ initPromise' = "none"
    /\ initRuns' = 0
    /\ db' = NoDb
    /\ inflight' = <<>>
    /\ nRestarts' = nRestarts + 1
    /\ last' = Env("restart", "")
    /\ UNCHANGED <<env, file, table, clock, returned, nOps, nTicks>>

Next ==
    \/ LoadModule
    \/ InitDBResolve
    \/ InitDBReject
    \/ \E s \in Schemas, j \in Jsons : SqliteSaveCall(s, j)
    \/ \E p \in Paths : ~IsStaticFile(p.chars) /\ SqliteGetCall(p.key)
    \/ \E id \in Ids, w \in Writes : SqliteResume(id, w)
    \/ \E id \in Ids : SqliteCrashInSave(id)
    \/ \E s \in Schemas, j \in Jsons, id \in Ids, dt \in {0, 1} :
          DynamoSaveCall(s, j, id, dt)
    \/ \E p \in Paths : ~IsStaticFile(p.chars) /\ DynamoGetCall(p.key)
    \/ \E i \in 1..MaxInflight, ok \in BOOLEAN, ap \in BOOLEAN : DynamoSettle(i, ok, ap)
    \/ DynamoExpire
    \/ LegacyLoad
    \/ LegacyInitResolve
    \/ LegacyInitReject
    \/ \E s \in Schemas, j \in Jsons, id \in Ids, w1 \in Writes, w2 \in Writes :
          LegacySave(s, j, id, w1, w2)
    \/ \E id \in Ids, w \in Writes : LegacyGet(id, w)
    \/ \E p \in Paths : GetRouteStatic(p)
    \/ Tick
    \/ Restart

Spec == Init /\ [][Next]_vars

\* ================================================================== claims
Facade == provider \in {"sqlite", "dynamodb"}

GetReturned == last.op = "get" /\ last.outcome = "return"

\* C1: round trip.  Under either provider, when a save returned id X and the
\* very next step is a get of X that returns, the get returns a record with
\* id X, with the schema and json strings that were saved, and with
\* created_at set.
C1_RoundTrip ==
    (Facade /\ GetReturned /\ last.follows # Null /\ last.follows.id = last.id)
    => /\ last.rec # Null
       /\ last.rec.id = last.follows.id
       /\ last.rec.schema = last.follows.schema
       /\ last.rec.json = last.follows.json
       /\ last.rec.created_at # Null

C1_Witness ==
    /\ provider = "dynamodb"
    /\ GetReturned
    /\ last.follows # Null
    /\ last.follows.id = last.id
    /\ last.rec # Null
    /\ last.rec.schema = ""

\* C2: absence.  On an initialized store, a get whose lookup was answered and
\* found no record with the id completes by returning null; it does not
\* throw.
C2_Absence ==
    (/\ last.op = "get"
     /\ \/ /\ provider = "sqlite"
           /\ last.initAt = "resolved"
           /\ \A r \in db.rows : r.id # last.id
        \/ /\ provider = "dynamodb"
           /\ last.err # "send failed"
           /\ \A i \in table : i.PK # last.id)
    => (last.outcome = "return" /\ last.rec = Null)

C2_Witness ==
    /\ provider = "sqlite"
    /\ last.op = "get"
    /\ last.outcome = "return"
    /\ last.rec = Null
    /\ db.rows # {}

\* Age of a created_at value in whole seconds, and the retention window.
AgeSeconds(created) == clock.s - created.sec

WindowSeconds == 7 * 24 * 60 * 60

C5_Step ==
    /\ (/\ provider = "dynamodb"
        /\ Len(inflight') = Len(inflight) + 1
        /\ inflight'[Len(inflight')].op = "save")
       => LET item == inflight'[Len(inflight')].item IN
          /\ item.created_at = [fmt |-> "iso", s |-> clock.s, ms |-> clock.ms]
          /\ \/ clock' = clock
             \/ clock' = [clock EXCEPT !.ms = @ + 1]
             \/ clock' = [s |-> clock.s + 1, ms |-> 0] /\ clock.ms = 999
          /\ item.ttl = clock'.s + 24 * 60 * 60
          /\ item.ttl > item.created_at.s
    /\ (/\ provider = "dynamodb"
        /\ provider' = "dynamodb"
        /\ Len(inflight') = Len(inflight) - 1
        /\ last'.op = "save"
        /\ last'.outcome = "return")
       => /\ \E item \in table' :
               /\ item.PK = last'.rid
               /\ \E c \in {inflight[i] : i \in 1..Len(inflight)} : c.item = item
          /\ Cardinality(table') <= Cardinality(table) + 1

C5_Ttl == [][C5_Step]_vars

\* The clock crossed a whole second between the two reads of a save.
C5_Witness ==
    /\ provider = "dynamodb"
    /\ last.op = "save"
    /\ last.outcome = "return"
    /\ \E item \in table :
          /\ item.PK = last.rid
          /\ item.created_at.ms = 999
          /\ item.ttl = item.created_at.s + 1 + 24 * 60 * 60

\* The spellings of the managed-store option among the provider values.
ManagedSpellings == {DYNAMODB, <<"D","y","n","a","m","o","D","B">>}

IsManagedOption(v) == v.defined /\ v.chars \in ManagedSpellings

HasTableName == env.DYNAMODB_TABLE_NAME.defined /\ env.DYNAMODB_TABLE_NAME.chars # <<>>

\* C6: provider fallback.  Once the facade is loaded, the provider is the
\* SQLite provider for every DB_PROVIDER that is absent, empty or not the
\* managed-store option, and it is never the SQLite provider for the
\* managed-store option.
C6_Fallback ==
    (env.store = "index" /\ proc # "boot")
    => IF IsManagedOption(env.DB_PROVIDER)
       THEN provider # "sqlite" /\ initPromise = "none" /\ db = NoDb
       ELSE provider = "sqlite" /\ proc = "running"

C6_Witness ==
    /\ env.DB_PROVIDER = Str(<<"p","o","s","t","g","r","e","s">>)
    /\ provider = "sqlite"
    /\ last.op = "save"
    /\ last.outcome = "return"

\* C7: fail fast.  With the managed-store option and no table name, loading
\* the facade throws: the process has no provider, no save or get was ever
\* started, and the SQLite store was neither initialized nor written.
C7_FailFast ==
    (/\ env.store = "index"
     /\ IsManagedOption(env.DB_PROVIDER)
     /\ ~HasTableName
     /\ proc # "boot")
    => /\ proc = "crashed"
       /\ provider = "none"
       /\ inflight = <<>>
       /\ last.op \notin {"save", "get"}
       /\ returned = {}
       /\ nOps = 0
       /\ table = {}
       /\ initPromise = "none"
       /\ db = NoDb
       /\ file = NoFile

\* The load crashed again after a restart, with an empty table name.
C7_Witness ==
    /\ proc = "crashed"
    /\ env.DYNAMODB_TABLE_NAME = Str(<<>>)
    /\ nRestarts = 1
    /\ last.op = "load"

\* C8: result shape.  Every record a get returns under either provider has
\* exactly the fields id, schema, json and created_at.
C8_Shape ==
    (Facade /\ GetReturned /\ last.rec # Null)
    => DOMAIN last.rec = {"id", "schema", "json", "created_at"}

C8_Witness ==
    /\ provider = "dynamodb"
    /\ GetReturned
    /\ last.rec # Null
    /\ \E item \in table : item.PK = last.id /\ "ttl" \in DOMAIN item

C10_Durable ==
    /\ (provider = "sqlite" /\ last.op = "save" /\ last.outcome = "return")
          => /\ file.exists
             /\ ~file.torn
             /\ file.rows = db.rows
             /\ \E row \in file.rows :
                   /\ row.id = last.rid
                   /\ row.schema = last.schema
                   /\ row.json = last.json
    /\ \A s \in returned : (s.by = "sqlite" /\ ~file.everTorn) =>
          /\ file.exists
          /\ \E row \in file.rows :
                row.id = s.id /\ row.schema = s.schema /\ row.json = s.json
          /\ (provider = "sqlite" /\ initPromise = "resolved" /\ nRestarts > 0)
                => \E row \in db.rows :
                      row.id = s.id /\ row.schema = s.schema /\ row.json = s.json

\* A restarted process has just loaded the file and holds a returned record.
C10_Witness ==
    /\ provider = "sqlite"
    /\ ~file.everTorn
    /\ nRestarts = 1
    /\ last.op = "init"
    /\ db.loaded
    /\ \E s \in returned : s.by = "sqlite" /\ \E row \in db.rows : row.id = s.id

\* C11: records are immutable.  In every step, under either provider, a
\* record that is in the store before and after the step has the same schema,
\* json and created_at; a save whose generated id is already in use replaces
\* nothing.
C11_Step ==
    /\ (db.loaded /\ db'.loaded) =>
          \A r \in db.rows : \A r2 \in db'.rows : r2.id = r.id => r2 = r
    /\ \A i \in table : \A i2 \in table' :
          i2.PK = i.PK => /\ i2.schema = i.schema
                          /\ i2.json = i.json
                          /\ i2.created_at = i.created_at

C11_Immutable == [][C11_Step]_vars

\* A save of a facade provider has completed on a store whose initialization
\* did not fail.
SaveOnInitialized ==
    /\ Facade
    /\ last.op = "save"
    /\ last.initAt # "rejected"

\* C12 as claimed: a save on a successfully initialized store always returns
\* an id.
C12_Original ==
    SaveOnInitialized => (last.outcome = "return" /\ last.rid \in Ids)

\* C12 amended: a save fails with the initialization error when the
\* initialization failed; on an initialized store it returns an id or fails
\* with a disk write error, a failed send or a primary-key conflict, and for
\* no other reason: no payload is rejected for its content.
C12_SaveOutcome ==
    (Facade /\ last.op = "save") =>
        /\ last.initAt = "rejected" =>
              (last.outcome = "throw" /\ last.err = "init failed")
        /\ last.initAt # "rejected" =>
              \/ last.outcome = "return" /\ last.rid \in Ids /\ last.err = ""
              \/ /\ last.outcome = "throw"
                 /\ last.rid = ""
                 /\ last.err \in {"write failed", "send failed",
                                  "UNIQUE constraint failed"}

\* The empty string, which is not JSON, was saved and got an id.
C12_Witness ==
    /\ provider = "sqlite"
    /\ last.op = "save"
    /\ last.schema = ""
    /\ last.outcome = "return"
    /\ \E r \in db.rows : r.id = last.rid /\ r.schema = ""

\* C13: initialization failure.  Once initDB() of the SQLite provider has
\* rejected, it is not run again in this process, the provider holds no
\* rows, and every save and get that completes throws the initialization
\* error and returns neither an id nor a record.  In the single-module store
\* the rejection is logged, and every save and get that completes afterwards
\* throws as well.
C13_InitFailure ==
    /\ (provider = "sqlite" /\ initPromise = "rejected") =>
          /\ initRuns = 1
          /\ db.rows = {}
          /\ last.op \in {"save", "get"} =>
                /\ last.outcome = "throw"
                /\ last.err = "init failed"
                /\ last.rid = ""
                /\ last.rec = Null
    /\ (provider = "legacy" /\ initPromise = "rejected") =>
          /\ initRuns = 1
          /\ db.rows = {}
          /\ last.op \in {"save", "get"} =>
                /\ last.outcome = "throw"
                /\ last.err \in {"Database not initialized",
                                 "file is not a database"}
                /\ last.rid = ""
                /\ last.rec = Null

\* The first caller and a later caller have both failed on the rejected
\* initialization.
C13_Witness ==
    /\ provider = "sqlite"
    /\ initPromise = "rejected"
    /\ nOps = 2
    /\ inflight = <<>>
    /\ last.op = "get"
    /\ last.outcome = "throw"
    /\ last.err = "init failed"

\* C14: error propagation.  A save or get whose disk write or send failed
\* throws and yields neither an id nor a record; a save that returned an id
\* did write its record (the file is the whole table with the row; the item
\* is in the DynamoDB table); a get that returned null found no record; and
\* after a failed disk write the new row is not in the file, so the write
\* was not tried again.
C14_Propagation ==
    Facade =>
        /\ last.err \in {"write failed", "send failed"} =>
              /\ last.op \in {"save", "get"}
              /\ last.outcome = "throw"
              /\ last.rid = ""
              /\ last.rec = Null
        /\ (provider = "sqlite" /\ last.op = "save" /\ last.outcome = "return") =>
              /\ ~file.torn
              /\ \E row \in file.rows : row.id = last.rid
        /\ (provider = "sqlite" /\ last.err = "write failed") =>
              \E row \in db.rows : row \notin file.rows
        /\ (provider = "dynamodb" /\ last.op = "save" /\ last.outcome = "return") =>
              \E item \in table :
                 /\ item.PK = last.rid
                 /\ item.schema = last.schema
                 /\ item.json = last.json
        /\ (GetReturned /\ last.rec = Null) =>
              /\ \A item \in table : item.PK # last.id
              /\ \A row \in db.rows : row.id # last.id

\* A get failed on its send while the item it asked for is in the table.
C14_Witness ==
    /\ provider = "dynamodb"
    /\ last.op = "get"
    /\ last.outcome = "throw"
    /\ last.err = "send failed"
    /\ \E item \in table : item.PK = last.id

\* C15: sweep precision.  In every step of a process whose database stays
\* loaded, a row that leaves the table is a row of the single-module store
\* whose created_at is more than seven days before the time of the call; and
\* when a save has returned, the row it created, stamped with the time of
\* the call, is in the table.
C15_Step ==
    /\ (db.loaded /\ db'.loaded) =>
          \A r \in db.rows \ db'.rows :
             /\ provider = "legacy"
             /\ last'.op \in {"save", "get"}
             /\ clock.s - r.created_at.sec > WindowSeconds
    /\ (provider' \in {"sqlite", "legacy"} /\ last'.op = "save"
        /\ last'.outcome = "return") =>
          \E r \in db'.rows :
             /\ r.id = last'.rid
             /\ r.schema = last'.schema
             /\ r.created_at.sec = clock'.s

C15_SweepPrecision == [][C15_Step]_vars

\* A get of the single-module store returned a record that is exactly seven
\* days old.
C15_Witness ==
    /\ provider = "legacy"
    /\ GetReturned
    /\ last.rec # Null
    /\ AgeSeconds(last.rec.created_at) = WindowSeconds

\* C16: no lost updates in the SQLite provider.  Every complete write of the
\* file writes the table as it is after the step (no image of an earlier
\* moment), keeping every row the table had; and whenever no call is in
\* flight, every record a save returned is in the table and in the file
\* (for a file no write of which was cut short).
C16_Step ==
    /\ (provider' = "sqlite" /\ file' # file /\ ~file'.torn) =>
          /\ file'.rows = db'.rows
          /\ db.loaded => db.rows \subseteq db'.rows
    /\ (provider' = "sqlite" /\ inflight' = <<>> /\ db'.loaded
        /\ ~file'.everTorn) =>
          \A s \in returned' : s.by = "sqlite" =>
             /\ \E r \in db'.rows :
                   r.id = s.id /\ r.schema = s.schema /\ r.json = s.json
             /\ \E r \in file'.rows :
                   r.id = s.id /\ r.schema = s.schema /\ r.json = s.json

C16_NoLostUpdate == [][C16_Step]_vars

\* Two saves were issued while the initialization was pending and ran one
\* after the other; both rows are in the file.
C16_Witness ==
    /\ provider = "sqlite"
    /\ ~file.everTorn
    /\ inflight = <<>>
    /\ last.op = "save"
    /\ last.outcome = "return"
    /\ last.calledAt = "pending"
    /\ last.follows # Null
    /\ last.follows.id # last.rid
    /\ \E r \in file.rows : r.id = last.rid
    /\ \E r \in file.rows : r.id = last.follows.id

\* C17: no partial file.  In every reachable state the file, when it exists,
\* is a whole store image, and it holds every record a save of the SQLite
\* provider returned, except at most the record of the most recent save.
C17_NoPartialFile ==
    provider \in {"none", "sqlite"} =>
        /\ file.exists => ~file.torn
        /\ \A s \in returned : s.by = "sqlite" =>
              \/ \E r \in file.rows : r.id = s.id
              \/ last.op = "save" /\ last.rid = s.id

\* C18: the DynamoDB provider leaves expiry to the table.  A get that
\* returns gives the record of the item the table holds under the id,
\* whatever its ttl, and null exactly when the table holds none; the step
\* that completes a get leaves the table as it was; and an item leaves the
\* table only by the table's own TTL process or by a put of the same key.
C18_Step ==
    (provider = "dynamodb" /\ provider' = "dynamodb") =>
        /\ (last'.op = "get" /\ last'.outcome = "return") =>
              IF \E item \in table' : item.PK = last'.id
              THEN \E item \in table' :
                      /\ item.PK = last'.id
                      /\ last'.rec # Null
                      /\ last'.rec.id = item.PK
                      /\ last'.rec.schema = item.schema
                      /\ last'.rec.json = item.json
                      /\ last'.rec.created_at = item.created_at
              ELSE last'.rec = Null
        /\ (Len(inflight') < Len(inflight) /\ last'.op = "get") => table' = table
        /\ \A item \in table \ table' :
              \/ last'.op = "expire"
              \/ last'.op = "save" /\ \E i2 \in table' : i2.PK = item.PK

C18_DelegatedExpiry == [][C18_Step]_vars

\* A get returned the record of an item whose ttl has passed and which the
\* table has not yet deleted.
C18_Witness ==
    /\ provider = "dynamodb"
    /\ GetReturned
    /\ last.rec # Null
    /\ \E item \in table : item.PK = last.id /\ item.ttl <= clock.s

\* The calls in flight before a step.
InflightCalls == {inflight[i] : i \in 1..Len(inflight)}

\* C19: no partial reads.  A row or item that enters the store comes whole
\* from one save: its schema and json are those of one call and its
\* created_at is the time of that call; and a get that returns gives null or
\* the four fields of one row or item of the store.
C19_Step ==
    /\ (db.loaded /\ db'.loaded) =>
          \A r \in db'.rows \ db.rows :
             /\ last'.op = "save"
             /\ r.schema = last'.schema
             /\ r.json = last'.json
             /\ r.created_at = [fmt |-> "sql", sec |-> clock.s]
             /\ DOMAIN r = {"id", "schema", "json", "created_at"}
    /\ \A item \in table' \ table :
          \E c \in InflightCalls :
             /\ c.op = "save"
             /\ Len(inflight') < Len(inflight)
             /\ item.schema = c.schema
             /\ item.json = c.json
             /\ item = c.item
             /\ DOMAIN item = {"PK", "schema", "json", "created_at", "ttl"}
    /\ \A c \in {inflight'[i] : i \in 1..Len(inflight')} \ InflightCalls :
          (c.op = "save" /\ provider = "dynamodb") =>
             /\ c.item.schema = c.schema
             /\ c.item.json = c.json
             /\ c.item.created_at = [fmt |-> "iso", s |-> clock.s, ms |-> clock.ms]
    /\ (Facade /\ last'.op = "get" /\ last'.outcome = "return" /\ last'.rec # Null
        /\ provider' = provider) =>
          /\ DOMAIN last'.rec = {"id", "schema", "json", "created_at"}
          /\ \/ \E r \in db'.rows :
                   /\ r.id = last'.id
                   /\ last'.rec = r
             \/ \E item \in table' :
                   /\ item.PK = last'.id
                   /\ last'.rec.id = item.PK
                   /\ last'.rec.schema = item.schema
                   /\ last'.rec.json = item.json
                   /\ last'.rec.created_at = item.created_at

C19_NoPartialRead == [][C19_Step]_vars

\* A get returned the record of an id that two saves with different schemas
\* had written: the record is wholly one save's.
C19_Witness ==
    /\ provider = "dynamodb"
    /\ GetReturned
    /\ last.rec # Null
    /\ last.rec.schema = ""
    /\ \E s \in returned : s.id = last.id /\ s.schema # ""
    /\ \E s \in returned : s.id = last.id /\ s.schema = ""

\* The :id values that contain a '.'.
DottedKeys == {"app.js"}

\* C20: GET /:id.  Under the facade, a request whose id contains '.' is
\* answered 404 'Not found' and never reaches the store; a lookup that found
\* nothing is answered 404 'Validation not found or expired'; a lookup that
\* threw is answered 500; one request issues at most one call of the store;
\* and no step that ends in a completed request of this route changes the
\* table, the database or the file.
C20_Step ==
    provider' \in {"sqlite", "dynamodb"} =>
        /\ \A i \in 1..Len(inflight') : inflight'[i].id \notin DottedKeys
        /\ last'.id \in DottedKeys =>
              /\ last'.op = "route"
              /\ last'.resp = [status |-> 404, body |-> "Not found"]
        /\ last'.op = "route" => last'.id \in DottedKeys
        /\ last'.op = "get" =>
              /\ (last'.outcome = "return" /\ last'.rec = Null) =>
                    last'.resp = [status |-> 404,
                                  body |-> "Validation not found or expired"]
              /\ last'.outcome = "throw" => last'.resp.status = 500
              /\ last'.resp.status \in {200, 404, 500}
        /\ nOps' = nOps + 1 => Len(inflight') <= Len(inflight) + 1
        /\ (last'.op \in {"get", "route"} /\ provider = provider') =>
              /\ table' = table
              /\ db' = db
              /\ file' = file

C21_Agreement ==
    (/\ provider \in {"sqlite", "legacy"}
     /\ db.loaded
     /\ ~db.corrupt
     /\ inflight = <<>>
     /\ ~file.everTorn)
    => (IF file.exists THEN file.rows ELSE {}) = db.rows

====
